---- MODULE Spec2Model ----
(***************************************************************************)
(* FedLab coordination protocol: the synchronous and the asynchronous     *)
(* parameter server handlers (fedlab_core/server/handler.py) and the       *)
(* client agent's message loop (fedlab_core/client/topology.py).           *)
(*                                                                         *)
(* Tensors are vectors of exact rationals <<numerator, denominator>>, so   *)
(* torch.mean and the exponential merge are computed, not abstracted.      *)
(* Python's None is the empty tuple.                                       *)
(***************************************************************************)
EXTENDS Integers, Sequences, FiniteSets, TLC

\* ---------------------------------------------------------------- bounds
MaxClients == 3
MaxUpdates == 3
MaxSent == 1
MaxMsgs == 3

\* ------------------------------------------------------------- rationals
Abs(n) == IF n < 0 THEN 0 - n ELSE n

RECURSIVE GCD(_, _)
GCD(a, b) == IF b = 0 THEN a ELSE GCD(b, a % b)

Norm(n, d) == LET g == GCD(Abs(n), d) IN <<n \div g, d \div g>>

Rat(n) == <<n, 1>>

RatAdd(x, y) == Norm(x[1] * y[2] + y[1] * x[2], x[2] * y[2])

RatMul(x, y) == Norm(x[1] * y[1], x[2] * y[2])

RatDivInt(x, k) == Norm(x[1], x[2] * k)

RatEq(x, y) == x[1] * y[2] = y[1] * x[2]

Vec(a, b) == <<Rat(a), Rat(b)>>

None == <<>>

\* Payload vectors the clients may send, and the parameters of the model the
\* handler is constructed with.
Payloads == {Vec(2, 4), Vec(2, 0)}

InitialParams == {Vec(0, 0)}

VecLen == Len(Vec(0, 0))

MessageCode == {"ParameterUpdate", "ParameterRequest", "GradientUpdate", "Exit"}

\* select_ratio values in (0, 1]; all are dyadic, so the float product
\* select_ratio * client_num is exact.
Ratios == {<<1, 4>>, <<1, 2>>, <<3, 4>>, <<1, 1>>}

VARIABLES
    client_num,           \* sync: SyncParameterServerHandler.client_num
    select_ratio,         \* sync: select_ratio, a rational
    round_num,            \* sync: int(select_ratio * client_num)
    client_buffer_cache,  \* sync: list of client_num entries, None or a payload
    buffer_cnt,           \* sync: number of accepted contributions
    update_flag,          \* sync: update_flag
    threads,              \* sync: position of each concurrent receive call
    buffer,               \* ParameterServerHandler._buffer
    model,                \* parameters held by ParameterServerHandler._model
    outbox,               \* async: messages sent with send_message
    updates,              \* async: number of merges done (bounds the run)
    last,                 \* the last call on the handler and how it ended
    pc,                   \* client: position in ClientSyncTop.run
    inbox,                \* client: messages from rank 0 not yet received
    served,               \* client: number of messages the server has sent
    msg,                  \* client: the decoded message being handled
    backend_buffer,       \* client: self._backend.buffer
    trained,              \* client: number of self._backend.train calls
    sent                  \* client: messages sent to the server

syncVars == <<client_num, select_ratio, round_num, client_buffer_cache,
              buffer_cnt, update_flag, threads>>
baseVars == <<buffer, model>>
asyncVars == <<outbox, updates>>
clientVars == <<pc, inbox, served, msg, backend_buffer, trained, sent>>
vars == <<syncVars, baseVars, asyncVars, last, clientVars>>

Call(op, sender, code, payload, outcome, ret) ==
    [op |-> op, sender |-> sender, code |-> code, payload |-> payload,
     outcome |-> outcome, ret |-> ret]

NoCall == Call("none", 0, "none", None, "ok", <<>>)

\* Callers of receive when the receive loop is run by several threads.
Threads == {1, 2}

NoThread == [at |-> "idle", sender |-> 0, payload |-> None]

\* ----------------------------------------------------- handler base class
\* ParameterServerHandler.__init__: the buffer is the ravelled model.
BaseInit ==
    /\ buffer \in InitialParams
    /\ model = buffer

\* Parts of the state a specification does not use stay as constructed here.
SyncIdle ==
    /\ client_num = 0
    /\ select_ratio = <<1, 1>>
    /\ round_num = 0
    /\ client_buffer_cache = <<>>
    /\ buffer_cnt = 0
    /\ update_flag = FALSE
    /\ threads = [t \in Threads |-> NoThread]

AsyncIdle ==
    /\ outbox = <<>>
    /\ updates = 0

ClientIdle ==
    /\ pc = "Idle"
    /\ inbox = <<>>
    /\ served = 0
    /\ msg = NoCall
    /\ backend_buffer = None
    /\ trained = 0
    /\ sent = <<>>

\* ------------------------------------------------------------ sync handler
\* int(select_ratio * client_num)
RoundNum(ratio, n) == (ratio[1] * n) \div ratio[2]

EmptyCache(n) == [i \in 1..n |-> None]

SyncInit ==
    /\ BaseInit
    /\ client_num \in 1..MaxClients
    /\ select_ratio \in Ratios
    /\ round_num = RoundNum(select_ratio, client_num)
    /\ client_buffer_cache = EmptyCache(client_num)
    /\ buffer_cnt = 0
    /\ update_flag = FALSE
    /\ threads = [t \in Threads |-> NoThread]
    /\ last = NoCall
    /\ AsyncIdle
    /\ ClientIdle

Senders == (0 - 1)..(client_num + 1)

\* Python list indexing cache[index]: negative indices count from the end,
\* anything else outside the list raises IndexError.
InRange(index, n) == (0 - n) <= index /\ index < n

Position(index, n) == IF index >= 0 THEN index + 1 ELSE n + index + 1

IsDuplicateNever(cache, pos) == FALSE

IsDuplicate(cache, pos) == cache[pos] # None

SyncDispatchSilent(message_code) ==
    IF message_code = "ParameterUpdate" THEN "update" ELSE "ok"

\* The branch on message_code: the update, or how the call ends otherwise
\* (raise Exception("Undefined message type!")).
SyncDispatch(message_code) ==
    IF message_code = "ParameterUpdate" THEN "update" ELSE "Exception"

\* torch.stack accepts tensors only.
Stackable(cache) == \A i \in 1..Len(cache) : cache[i] # None

RECURSIVE SumColumn(_, _, _)
SumColumn(stack, j, k) ==
    IF k = 0 THEN Rat(0) ELSE RatAdd(SumColumn(stack, j, k - 1), stack[k][j])

\* torch.mean(torch.stack(cache), dim=0)
TorchMean(stack) ==
    [j \in 1..VecLen |-> RatDivInt(SumColumn(stack, j, Len(stack)), Len(stack))]

SyncReceive(sender, message_code, payload) ==
    LET index == sender - 1
        pos == Position(index, client_num)
        cnt == buffer_cnt + 1
        cache == [client_buffer_cache EXCEPT ![pos] = payload]
        done(outcome) == last' = Call("receive", sender, message_code, payload,
                                      outcome, <<>>)
    IN
    /\ UNCHANGED <<client_num, select_ratio, round_num, threads, asyncVars,
                   clientVars>>
    /\ IF SyncDispatch(message_code) # "update"
       THEN /\ done(SyncDispatch(message_code))
            /\ UNCHANGED <<client_buffer_cache, buffer_cnt, update_flag, baseVars>>
       ELSE IF ~InRange(index, client_num)
       THEN /\ done("IndexError")
            /\ UNCHANGED <<client_buffer_cache, buffer_cnt, update_flag, baseVars>>
       ELSE IF IsDuplicate(client_buffer_cache, pos)
       THEN /\ done("ok")
            /\ UNCHANGED <<client_buffer_cache, buffer_cnt, update_flag, baseVars>>
       ELSE IF cnt # round_num
       THEN /\ done("ok")
            /\ buffer_cnt' = cnt
            /\ client_buffer_cache' = cache
            /\ UNCHANGED <<update_flag, baseVars>>
       ELSE IF ~Stackable(cache)
       THEN /\ done("TypeError")
            /\ buffer_cnt' = cnt
            /\ client_buffer_cache' = cache
            /\ UNCHANGED <<update_flag, baseVars>>
       ELSE /\ done("ok")
            /\ buffer' = TorchMean(cache)
            /\ model' = buffer'
            /\ buffer_cnt' = 0
            /\ client_buffer_cache' = EmptyCache(client_num)
            /\ update_flag' = TRUE

\* random.sample(id_list, round_num): any round_num distinct ranks, in any order
SamplesWithRepeats(n, k) == [1..k -> 1..n]

Samples(n, k) ==
    {s \in [1..k -> 1..n] : \A i, j \in 1..k : i # j => s[i] # s[j]}

SelectClients ==
    /\ \E select \in Samples(client_num, round_num) :
           last' = Call("select_clients", 0, "none", None, "ok", select)
    /\ UNCHANGED <<syncVars, baseVars, asyncVars, clientVars>>

IsUpdated ==
    /\ last' = Call("is_updated", 0, "none", None, "ok", <<update_flag>>)
    /\ UNCHANGED <<syncVars, baseVars, asyncVars, clientVars>>

StartRoundResetsCount ==
    /\ update_flag' = FALSE
    /\ buffer_cnt' = 0
    /\ last' = Call("start_round", 0, "none", None, "ok", <<>>)
    /\ UNCHANGED <<client_num, select_ratio, round_num, client_buffer_cache,
                   threads, baseVars, asyncVars, clientVars>>

StartRound ==
    /\ update_flag' = FALSE
    /\ last' = Call("start_round", 0, "none", None, "ok", <<>>)
    /\ UNCHANGED <<client_num, select_ratio, round_num, client_buffer_cache,
                   buffer_cnt, threads, baseVars, asyncVars, clientVars>>

SyncReceiveAny ==
    \E sender \in Senders, message_code \in MessageCode, payload \in Payloads :
        SyncReceive(sender, message_code, payload)

Next == SyncReceiveAny \/ SelectClients \/ IsUpdated \/ StartRound

Spec == SyncInit /\ [][Next]_vars

\* ------------------------------------- sync handler, receive run concurrently
\* SyncParameterServerHandler.receive takes no lock: two threads calling it
\* interleave between its statements. Each thread runs
\* receive(sender, ParameterUpdate, payload) for a client rank.
ThreadCall(t) ==
    /\ threads[t].at = "idle"
    /\ \E sender \in 1..client_num, payload \in Payloads :
           threads' = [threads EXCEPT ![t] =
                          [at |-> "check", sender |-> sender, payload |-> payload]]
    /\ UNCHANGED <<client_num, select_ratio, round_num, client_buffer_cache,
                   buffer_cnt, update_flag, baseVars, asyncVars, last, clientVars>>

\* if self.client_buffer_cache[buffer_index] is not None: return
ThreadCheck(t) ==
    LET me == threads[t]
        pos == Position(me.sender - 1, client_num)
    IN
    /\ me.at = "check"
    /\ IF IsDuplicate(client_buffer_cache, pos)
       THEN /\ threads' = [threads EXCEPT ![t] = NoThread]
            /\ last' = Call("receive", me.sender, "ParameterUpdate", me.payload,
                            "ok", <<>>)
       ELSE /\ threads' = [threads EXCEPT ![t].at = "increment"]
            /\ UNCHANGED last
    /\ UNCHANGED <<client_num, select_ratio, round_num, client_buffer_cache,
                   buffer_cnt, update_flag, baseVars, asyncVars, clientVars>>

\* self.buffer_cnt += 1
ThreadIncrement(t) ==
    /\ threads[t].at = "increment"
    /\ buffer_cnt' = buffer_cnt + 1
    /\ threads' = [threads EXCEPT ![t].at = "store"]
    /\ UNCHANGED <<client_num, select_ratio, round_num, client_buffer_cache,
                   update_flag, baseVars, asyncVars, last, clientVars>>

\* self.client_buffer_cache[buffer_index] = payload.clone()
ThreadStore(t) ==
    LET me == threads[t]
        pos == Position(me.sender - 1, client_num)
    IN
    /\ me.at = "store"
    /\ client_buffer_cache' = [client_buffer_cache EXCEPT ![pos] = me.payload]
    /\ threads' = [threads EXCEPT ![t].at = "aggregate"]
    /\ UNCHANGED <<client_num, select_ratio, round_num, buffer_cnt,
                   update_flag, baseVars, asyncVars, last, clientVars>>

\* if self.buffer_cnt == self.round_num: average, reset, set the flag
ThreadAggregate(t) ==
    LET me == threads[t]
        done(outcome) == last' = Call("receive", me.sender, "ParameterUpdate",
                                      me.payload, outcome, <<>>)
    IN
    /\ me.at = "aggregate"
    /\ threads' = [threads EXCEPT ![t] = NoThread]
    /\ UNCHANGED <<client_num, select_ratio, round_num, asyncVars, clientVars>>
    /\ IF buffer_cnt # round_num
       THEN /\ done("ok")
            /\ UNCHANGED <<client_buffer_cache, buffer_cnt, update_flag, baseVars>>
       ELSE IF ~Stackable(client_buffer_cache)
       THEN /\ done("TypeError")
            /\ UNCHANGED <<client_buffer_cache, buffer_cnt, update_flag, baseVars>>
       ELSE /\ done("ok")
            /\ buffer' = TorchMean(client_buffer_cache)
            /\ model' = buffer'
            /\ buffer_cnt' = 0
            /\ client_buffer_cache' = EmptyCache(client_num)
            /\ update_flag' = TRUE

ConcurrentNext ==
    \E t \in Threads :
        \/ ThreadCall(t)
        \/ ThreadCheck(t)
        \/ ThreadIncrement(t)
        \/ ThreadStore(t)
        \/ ThreadAggregate(t)

ConcurrentSpec == SyncInit /\ [][ConcurrentNext]_vars

\* ----------------------------------------------------------- async handler
\* AsyncParameterServerHandler.alpha
alpha == <<1, 2>>

AsyncInit ==
    /\ BaseInit
    /\ outbox = <<>>
    /\ updates = 0
    /\ last = NoCall
    /\ SyncIdle
    /\ ClientIdle

AsyncSenders == {1, 2}

AsyncMergeOverwrite(buf, params) == params

\* (1 - alpha) * buffer + alpha * params, elementwise
AsyncMerge(buf, params) ==
    [j \in 1..VecLen |->
        RatAdd(RatMul(RatAdd(Rat(1), <<0 - alpha[1], alpha[2]>>), buf[j]),
               RatMul(alpha, params[j]))]

AsyncDispatchSilent(message_code) ==
    CASE message_code = "ParameterUpdate" -> "update"
      [] message_code = "ParameterRequest" -> "reply"
      [] OTHER -> "pass"

AsyncDispatchNoReply(message_code) ==
    CASE message_code = "ParameterUpdate" -> "update"
      [] message_code = "GradientUpdate" -> "raise"
      [] OTHER -> "pass"

AsyncDispatch(message_code) ==
    CASE message_code = "ParameterUpdate" -> "update"
      [] message_code = "ParameterRequest" -> "reply"
      [] message_code = "GradientUpdate" -> "raise"
      [] message_code = "Exit" -> "pass"
      [] OTHER -> "pass"

\* send_message(message_code, payload, dst)
Message(code, payload, dst) == [code |-> code, payload |-> payload, dst |-> dst]

AsyncReceiveNoLoad(sender, message_code, parameter) ==
    LET branch == AsyncDispatch(message_code)
        done(outcome) == last' = Call("receive", sender, message_code, parameter,
                                      outcome, <<>>)
    IN
    /\ UNCHANGED <<syncVars, clientVars>>
    /\ branch = "update" => updates < MaxUpdates
    /\ branch = "reply" => Len(outbox) < MaxSent
    /\ IF branch = "update"
       THEN /\ done("ok")
            /\ buffer' = AsyncMerge(buffer, parameter)
            /\ updates' = updates + 1
            /\ UNCHANGED <<model, outbox>>
       ELSE IF branch = "reply"
       THEN /\ done("ok")
            /\ outbox' = Append(outbox, Message("ParameterUpdate", model, sender))
            /\ UNCHANGED <<baseVars, updates>>
       ELSE IF branch = "raise"
       THEN /\ done("NotImplementedError")
            /\ UNCHANGED <<baseVars, asyncVars>>
       ELSE /\ done("ok")
            /\ UNCHANGED <<baseVars, asyncVars>>

AsyncReceive(sender, message_code, parameter) ==
    LET branch == AsyncDispatch(message_code)
        done(outcome) == last' = Call("receive", sender, message_code, parameter,
                                      outcome, <<>>)
    IN
    /\ UNCHANGED <<syncVars, clientVars>>
    /\ branch = "update" => updates < MaxUpdates
    /\ branch = "reply" => Len(outbox) < MaxSent
    /\ IF branch = "update"
       THEN /\ done("ok")
            /\ buffer' = AsyncMerge(buffer, parameter)
            /\ model' = buffer'
            /\ updates' = updates + 1
            /\ UNCHANGED outbox
       ELSE IF branch = "reply"
       THEN /\ done("ok")
            /\ outbox' = Append(outbox, Message("ParameterUpdate", model, sender))
            /\ UNCHANGED <<baseVars, updates>>
       ELSE IF branch = "raise"
       THEN /\ done("NotImplementedError")
            /\ UNCHANGED <<baseVars, asyncVars>>
       ELSE /\ done("ok")
            /\ UNCHANGED <<baseVars, asyncVars>>

AsyncReceiveAny ==
    \E sender \in AsyncSenders, message_code \in MessageCode, parameter \in Payloads :
        AsyncReceive(sender, message_code, parameter)

AsyncNext == AsyncReceiveAny

AsyncSpec == AsyncInit /\ [][AsyncNext]_vars

\* ------------------------------------------------------- either handler
\* A handler of either class: client_num is set by the sync constructor only.
HandlerInit == SyncInit \/ AsyncInit

HandlerNext ==
    \/ client_num > 0 /\ Next
    \/ client_num = 0 /\ AsyncNext

HandlerSpec == HandlerInit /\ [][HandlerNext]_vars

\* ------------------------------------------------------------ client agent
ClientInit ==
    /\ pc = "AwaitingServer"
    /\ inbox = <<>>
    /\ served = 0
    /\ msg = NoCall
    /\ backend_buffer \in InitialParams
    /\ trained = 0
    /\ sent = <<>>
    /\ last = NoCall
    /\ buffer = None
    /\ model = None
    /\ SyncIdle
    /\ AsyncIdle

\* The frame recv_message(self._buff, src=0) will deliver: rank 0 sends any
\* kind with any payload.
ServerSend ==
    /\ served < MaxMsgs
    /\ \E message_code \in MessageCode, parameter \in Payloads :
           inbox' = Append(inbox, Call("message", 0, message_code, parameter,
                                       "ok", <<>>))
    /\ served' = served + 1
    /\ UNCHANGED <<pc, msg, backend_buffer, trained, sent,
                   syncVars, baseVars, asyncVars, last>>

ClientDispatchNoExit(message_code) == "handle"

ClientDispatch(message_code) ==
    IF message_code = "Exit" THEN "exit" ELSE "handle"

\* run: recv_message, decode, and the Exit test
ClientRecv ==
    /\ pc = "AwaitingServer"
    /\ inbox # <<>>
    /\ msg' = Head(inbox)
    /\ inbox' = Tail(inbox)
    /\ pc' = IF ClientDispatch(Head(inbox).code) = "exit"
             THEN "Exited" ELSE "LocalTraining"
    /\ UNCHANGED <<served, backend_buffer, trained, sent,
                   syncVars, baseVars, asyncVars, last>>

\* ClientSyncTop.receive: self._backend.buffer = payload
ClientInstall ==
    /\ pc = "LocalTraining"
    /\ backend_buffer' = msg.payload
    /\ pc' = "Training"
    /\ UNCHANGED <<inbox, served, msg, trained, sent,
                   syncVars, baseVars, asyncVars, last>>

\* ClientSyncTop.receive: self._backend.train(epochs=2); the trainer is
\* external, its result is any vector.
ClientTrain ==
    /\ pc = "Training"
    /\ backend_buffer' \in Payloads
    /\ trained' = trained + 1
    /\ pc' = "Replying"
    /\ UNCHANGED <<inbox, served, msg, sent,
                   syncVars, baseVars, asyncVars, last>>

\* ClientSyncTop.synchronize: send_message(MessageCode.ParameterUpdate, buffer)
synchronize(buf) == Append(sent, Message("ParameterUpdate", buf, 0))

\* run calls self.synchronise(self._backend.buffer); ClientSyncTop defines
\* synchronize only, so the call resolves to
\* ClientCommunicationTopology.synchronise, which raises NotImplementedError
\* and ends the process.
ClientSynchronise ==
    /\ pc = "Replying"
    /\ pc' = "Failed"
    /\ UNCHANGED <<inbox, served, msg, backend_buffer, trained, sent,
                   syncVars, baseVars, asyncVars, last>>

ClientNext ==
    ServerSend \/ ClientRecv \/ ClientInstall \/ ClientTrain \/ ClientSynchronise

ClientSpec == ClientInit /\ [][ClientNext]_vars

\* ================================================================= claims
\* ------------------------------------------------ sync handler (Spec)
Occupied(cache) == {i \in 1..Len(cache) : cache[i] # None}

RECURSIVE SumOccupied(_, _, _)
SumOccupied(cache, j, k) ==
    IF k = 0 THEN Rat(0)
    ELSE IF cache[k] = None THEN SumOccupied(cache, j, k - 1)
    ELSE RatAdd(SumOccupied(cache, j, k - 1), cache[k][j])

\* The elementwise arithmetic mean of the payloads held in the occupied slots.
MeanOfOccupied(cache) ==
    [j \in 1..VecLen |->
        RatDivInt(SumOccupied(cache, j, Len(cache)), Cardinality(Occupied(cache)))]

\* This step is receive(ParameterUpdate) from a client rank whose slot is empty.
AcceptStep ==
    /\ last'.op = "receive"
    /\ last'.code = "ParameterUpdate"
    /\ last'.sender \in 1..client_num
    /\ client_buffer_cache[last'.sender] = None

\* This step is receive(ParameterUpdate) from a client rank whose slot is occupied.
DuplicateStep ==
    /\ last'.op = "receive"
    /\ last'.code = "ParameterUpdate"
    /\ last'.sender \in 1..client_num
    /\ client_buffer_cache[last'.sender] # None

\* This step accepts the quorum-th contribution of the round.
QuorumStep == AcceptStep /\ buffer_cnt + 1 = round_num

\* C1: with quorum Q >= 1, the receive step that accepts the Q-th contribution
\* since the cache was empty leaves the global buffer equal to the elementwise
\* arithmetic mean of exactly those Q payloads (also when Q < client_num).
C1_AveragingCorrect ==
    [][(QuorumStep /\ Cardinality(Occupied(client_buffer_cache)) = buffer_cnt)
         => buffer' = MeanOfOccupied([client_buffer_cache
                                        EXCEPT ![last'.sender] = last'.payload])]_vars

\* C2: receive(ParameterUpdate) for a client rank whose slot is already
\* occupied returns normally and changes none of the cache, the count, the
\* flag and the global buffer.
C2_DuplicateSuppressed ==
    [][DuplicateStep
         => /\ last'.outcome = "ok"
            /\ UNCHANGED <<client_buffer_cache, buffer_cnt, update_flag, buffer>>]_vars

\* C2 witness: a second update of rank 1, with another payload, was dropped:
\* the slot still holds the first payload and one contribution is counted.
C2_Witness ==
    /\ last.op = "receive"
    /\ last.code = "ParameterUpdate"
    /\ last.outcome = "ok"
    /\ last.sender = 1
    /\ client_buffer_cache[1] # None
    /\ client_buffer_cache[1] # last.payload
    /\ buffer_cnt = 1

\* C3: the receive step accepting the quorum-th contribution ends with the
\* flag set, the count 0 and every slot empty, its buffer being the mean of the
\* round's own contributions; a start_round step ends with the flag cleared.
C3_RoundReset ==
    [][/\ QuorumStep
           => /\ update_flag'
              /\ buffer_cnt' = 0
              /\ client_buffer_cache' = EmptyCache(client_num)
       /\ (QuorumStep /\ Cardinality(Occupied(client_buffer_cache)) = buffer_cnt)
           => buffer' = MeanOfOccupied([client_buffer_cache
                                          EXCEPT ![last'.sender] = last'.payload])
       /\ last'.op = "start_round" => ~update_flag']_vars

\* C4: 0 <= receivedCount <= quorum in every reachable state.
C4_CountWithinQuorum == 0 <= buffer_cnt /\ buffer_cnt <= round_num

\* C5: every receive step in which the count reaches the quorum sets the flag,
\* no other step sets it, and only a start_round step clears it.
C5_FlagTransitions ==
    [][/\ QuorumStep => update_flag'
       /\ (~update_flag /\ update_flag')
           => /\ last'.op = "receive"
              /\ last'.code = "ParameterUpdate"
              /\ buffer_cnt + 1 = round_num
       /\ (update_flag /\ ~update_flag') => last'.op = "start_round"]_vars

C6_ClientReplies ==
    [][/\ (pc = "AwaitingServer" /\ pc' # pc /\ msg'.code # "Exit")
           => pc' = "LocalTraining"
       /\ (pc = "LocalTraining" /\ pc' # pc)
           => backend_buffer' = msg.payload
       /\ (pc = "Training" /\ pc' # pc)
           => trained' = trained + 1
       /\ (pc = "Replying" /\ pc' # pc)
           => /\ sent' = synchronize(backend_buffer)
              /\ pc' = "AwaitingServer"]_vars

IsPrefix(s, t) == Len(s) <= Len(t) /\ SubSeq(t, 1, Len(s)) = s

\* C7: receiving Exit ends the client at once, with the working vector, the
\* trainer and the sent messages untouched; an exited client never receives,
\* trains or sends again.
C7_ExitTerminates ==
    [][/\ (pc = "AwaitingServer" /\ inbox # <<>> /\ Head(inbox).code = "Exit"
             /\ inbox' = Tail(inbox))
           => /\ pc' = "Exited"
              /\ UNCHANGED <<backend_buffer, trained, sent>>
       /\ pc = "Exited"
           => /\ pc' = "Exited"
              /\ IsPrefix(inbox, inbox')
              /\ UNCHANGED <<backend_buffer, trained, sent>>]_vars

\* C7 witness: the client has exited on an Exit message and a later message
\* of the server stays unreceived.
C7_Witness ==
    /\ pc = "Exited"
    /\ msg.code = "Exit"
    /\ inbox # <<>>
    /\ trained = 0
    /\ sent = <<>>

\* ---------------------------------------------- async handler (AsyncSpec)
\* 2 * x = y + z, for rationals
IsHalfSum(x, y, z) == 2 * x[1] * y[2] * z[2] = x[2] * (y[1] * z[2] + z[1] * y[2])

\* C9: every receive(ParameterUpdate, payload) step replaces the buffer by
\* (buffer + payload) / 2; from [0,0], [2,4] gives [1,2], and from [1,2],
\* [2,0] gives [1.5,1].
C9_AsyncMerge ==
    [][(last'.op = "receive" /\ last'.code = "ParameterUpdate")
         => /\ \A j \in 1..VecLen : IsHalfSum(buffer'[j], buffer[j], last'.payload[j])
            /\ (buffer = Vec(0, 0) /\ last'.payload = Vec(2, 4))
                   => buffer' = Vec(1, 2)
            /\ (buffer = Vec(1, 2) /\ last'.payload = Vec(2, 0))
                   => buffer' = <<<<3, 2>>, <<1, 1>>>>]_vars

\* C9 witness: the two merges of the example have been applied.
C9_Witness ==
    /\ last.op = "receive"
    /\ last.code = "ParameterUpdate"
    /\ last.payload = Vec(2, 0)
    /\ updates = 2
    /\ buffer = <<<<3, 2>>, <<1, 1>>>>

\* C10: receive(GradientUpdate) raises NotImplementedError and leaves the
\* buffer and the model unchanged.
C10_GradientUpdateRaises ==
    [][(last'.op = "receive" /\ last'.code = "GradientUpdate")
         => /\ last'.outcome = "NotImplementedError"
            /\ UNCHANGED <<buffer, model>>]_vars

\* C10 witness: GradientUpdate raised after a merge had changed the buffer.
C10_Witness ==
    /\ last.op = "receive"
    /\ last.code = "GradientUpdate"
    /\ last.outcome = "NotImplementedError"
    /\ updates > 0

\* C11: receive(sender, ParameterRequest, _) sends exactly one ParameterUpdate
\* message, addressed to the sender and carrying the model's parameters, and
\* leaves the buffer and the model unchanged.
C11_RequestReplies ==
    [][(last'.op = "receive" /\ last'.code = "ParameterRequest")
         => /\ outbox' = Append(outbox, [code |-> "ParameterUpdate",
                                         payload |-> model,
                                         dst |-> last'.sender])
            /\ UNCHANGED <<buffer, model>>]_vars

\* C11 witness: a request of rank 2 was answered with the merged model.
C11_Witness ==
    /\ last.op = "receive"
    /\ last.code = "ParameterRequest"
    /\ last.sender = 2
    /\ updates > 0
    /\ Len(outbox) = 1
    /\ outbox[1] = [code |-> "ParameterUpdate", payload |-> model, dst |-> 2]

\* ------------------------------------------------ sync handler (Spec)
IsInjective(s) == \A i, j \in 1..Len(s) : i # j => s[i] # s[j]

\* C12: select_clients returns exactly round_num pairwise distinct ranks, each
\* in 1..client_num, and changes none of the cache, the count, the flag and
\* the global buffer.
C12_SelectClients ==
    [][last'.op = "select_clients"
         => /\ Len(last'.ret) = round_num
            /\ IsInjective(last'.ret)
            /\ \A i \in 1..Len(last'.ret) : last'.ret[i] \in 1..client_num
            /\ UNCHANGED <<client_buffer_cache, buffer_cnt, update_flag, buffer>>]_vars

\* C12 witness: two clients out of three were selected in the middle of a round.
C12_Witness ==
    /\ last.op = "select_clients"
    /\ client_num = 3
    /\ Len(last.ret) = 2
    /\ buffer_cnt > 0

\* ------------------------------- concurrent receive calls (ConcurrentSpec)
\* The call of thread t has passed the duplicate check and not yet stored.
PassedCheck(t) == threads[t].at \in {"increment", "store"}

\* C13: two receive(ParameterUpdate) calls running concurrently never both
\* pass the duplicate check for the same empty slot, and once both have
\* returned the count equals the number of occupied slots (one accepted
\* contribution per slot filled).
C13_ReceiveAtomic ==
    /\ \A t1, t2 \in Threads :
           (t1 # t2 /\ PassedCheck(t1) /\ PassedCheck(t2))
               => threads[t1].sender # threads[t2].sender
    /\ (\A t \in Threads : threads[t].at = "idle")
           => buffer_cnt = Cardinality(Occupied(client_buffer_cache))

\* ------------------------------------------------ sync handler (Spec)
Idle == ~update_flag /\ buffer_cnt = 0

Accumulating == ~update_flag /\ 0 < buffer_cnt /\ buffer_cnt < round_num

Complete == update_flag /\ buffer_cnt = 0

\* C14: every step ends Idle, Accumulating or Complete (no contribution is
\* counted while the flag is set); Idle is left only by a receive step,
\* Accumulating only into Complete, and Complete only by start_round, into Idle.
C14_LifeCycle ==
    [][/\ Idle' \/ Accumulating' \/ Complete'
       /\ (Idle /\ ~Idle') => last'.op = "receive"
       /\ (Accumulating /\ ~Accumulating') => Complete'
       /\ (Complete /\ ~Complete') => (last'.op = "start_round" /\ Idle')]_vars

\* C15: in the state right after a start_round call every cache slot is empty
\* and the count is 0.
C15_CacheClearedAtStart ==
    last.op = "start_round"
        => /\ client_buffer_cache = EmptyCache(client_num)
           /\ buffer_cnt = 0

\* C15, amended: the cache is cleared when a round completes, not when one
\* starts: the receive step that completes an aggregation ends with every slot
\* empty and the count 0, and a start_round step clears the flag and leaves
\* the cache and the count as they are.
C15_CacheClearedAtCompletion ==
    [][/\ (QuorumStep /\ last'.outcome = "ok")
           => /\ client_buffer_cache' = EmptyCache(client_num)
              /\ buffer_cnt' = 0
       /\ last'.op = "start_round"
           => /\ ~update_flag'
              /\ UNCHANGED <<client_buffer_cache, buffer_cnt>>]_vars

\* C15 witness: start_round was called after a completed round and a fresh
\* contribution, which is still in the cache.
C15_Witness ==
    /\ last.op = "start_round"
    /\ buffer \notin InitialParams
    /\ buffer_cnt > 0
    /\ client_buffer_cache # EmptyCache(client_num)

\* C16: the count equals the number of occupied slots in every state, and
\* where the aggregation was triggered (and failed, leaving the state to be
\* seen) exactly round_num slots are occupied.
C16_CountMatchesOccupancy ==
    /\ buffer_cnt = Cardinality(Occupied(client_buffer_cache))
    /\ (last.op = "receive" /\ last.outcome = "TypeError")
           => Cardinality(Occupied(client_buffer_cache)) = round_num

\* C16 witness: two contributions are held and a duplicate has just been dropped.
C16_Witness ==
    /\ buffer_cnt = 2
    /\ Cardinality(Occupied(client_buffer_cache)) = 2
    /\ last.op = "receive"
    /\ last.code = "ParameterUpdate"
    /\ last.outcome = "ok"
    /\ last.sender \in 1..client_num
    /\ client_buffer_cache[last.sender] # last.payload

\* The contributions held in the cache, as a set of <<rank, payload>> pairs.
Contributions(cache) == {<<i, cache[i]>> : i \in Occupied(cache)}

RECURSIVE SumOver(_, _)
SumOver(S, j) ==
    IF S = {} THEN Rat(0)
    ELSE LET x == CHOOSE y \in S : TRUE
         IN RatAdd(x[2][j], SumOver(S \ {x}, j))

\* The state a round ends in, as a function of the set of its contributions.
RoundEnd(S) ==
    [buffer |-> [j \in 1..VecLen |-> RatDivInt(SumOver(S, j), Cardinality(S))],
     cache |-> EmptyCache(client_num),
     cnt |-> 0,
     flag |-> TRUE]

\* C17: the state in which a round ends is a function of the set of its
\* contributions alone (so it is the same for every arrival order): the step
\* accepting the quorum-th contribution ends with the buffer their mean, the
\* cache empty, the count 0 and the flag set, and a duplicate of a rank
\* already received leaves the set of contributions as it is.
C17_OrderIndependent ==
    [][/\ QuorumStep
           => [buffer |-> buffer', cache |-> client_buffer_cache',
               cnt |-> buffer_cnt', flag |-> update_flag']
              = RoundEnd(Contributions(client_buffer_cache)
                             \cup {<<last'.sender, last'.payload>>})
       /\ DuplicateStep
           => Contributions(client_buffer_cache')
              = Contributions(client_buffer_cache)]_vars

\* C19: receive(ParameterUpdate) from a client rank s changes no slot but
\* slot s - 1 (the others stay, or are emptied with it when the round
\* completes), and from a rank outside 1..client_num it changes neither the
\* cache nor the count.
C19_SlotIsolation ==
    [][(last'.op = "receive" /\ last'.code = "ParameterUpdate")
         => IF last'.sender \in 1..client_num
            THEN \A i \in 1..client_num :
                     i # last'.sender
                         => client_buffer_cache'[i] \in {client_buffer_cache[i], None}
            ELSE UNCHANGED <<client_buffer_cache, buffer_cnt>>]_vars

\* C20: a receive call that raises leaves the cache, the count, the flag and
\* the global buffer as they were before the call.
C20_FailureAtomic ==
    [][(last'.op = "receive" /\ last'.outcome # "ok")
         => UNCHANGED <<client_buffer_cache, buffer_cnt, update_flag, buffer>>]_vars

\* ------------------------------------------- either handler (HandlerSpec)
\* C18: in every state between calls, of the sync and of the async handler,
\* the parameters held by the model equal the buffer.
C18_ModelMatchesBuffer == model = buffer

\* C18 witness: a merge of the async handler has changed the buffer, and the
\* model holds the merged vector.
C18_Witness ==
    /\ client_num = 0
    /\ updates = 2
    /\ buffer = <<<<3, 2>>, <<1, 1>>>>
    /\ model = <<<<3, 2>>, <<1, 1>>>>

====
